---- MODULE Spec2Model ----
(***************************************************************************)
(* Spatial canvas of Constella (SpatialCanvasScreen, found in              *)
(* src/src/screens/NoteEditorScreen.tsx lines 1694-2450) together with the *)
(* note store it talks to (src/src/services/DatabaseService.ts).           *)
(*                                                                         *)
(* Three schedulers are modelled:                                          *)
(*   - the UI thread, where the gesture worklets run and write the shared  *)
(*     values (canvasPanEnabled, translateX, translateY, scale, ...);      *)
(*   - the JS thread, which runs the runOnJS callbacks in FIFO order       *)
(*     (jsQueue), the press handlers and the promise continuations;        *)
(*   - React, which commits the queued state updates at a later step       *)
(*     (Render).  noteNodes / contextMenuState / notes are the values the  *)
(*     last render saw (what the closures and the refs hold);              *)
(*     the ...Next variables are the result of the queued setState calls.  *)
(*                                                                         *)
(* Numbers: canvas and screen coordinates are integers; scale is a fixed   *)
(* point number with ScaleUnit units in 1.0 (so 0.1 = 10, 5 = 500).        *)
(***************************************************************************)
EXTENDS Integers, Sequences, FiniteSets, TLC

\* ------------------------------------------------------------------ bounds
NoteIds == {"A", "B", "C"}       \* ids of the notes that can exist in the store
MaxTouches == 2                  \* node touches per behaviour
MaxCanvasGestures == 1           \* canvas pan / pinch gestures per behaviour
MaxQueue == 3                    \* pending runOnJS calls
MaxDbQueue == 2                  \* statements in flight to the store
MaxNodes == 3                    \* entries of the node list
MaxMidFrames == 1                \* intermediate animation frames per behaviour

\* --------------------------------------------------------------- constants
ScaleUnit == 100                 \* fixed point: scale 1.0
NOTE_NODE_WIDTH == 200
NOTE_NODE_HEIGHT == 150
screenWidth == 400               \* Dimensions.get('window')
screenHeight == 800
MIN_SCALE == 10                  \* Math.max(0.1, ...)
MAX_SCALE == 500                 \* Math.min(5, ...)
SNAP_LOW == 50                   \* scale.value < 0.5 -> withSpring(0.5)
SNAP_HIGH == 300                 \* scale.value > 3   -> withSpring(3)
NODE_PRESS_SCALE == 150          \* handleNodePress: withSpring(1.5)
FIT_PADDING == 100               \* zoomToFitAll: padding
DEFAULT_MENU_WIDTH == 220        \* menuLayout.width || 220
DEFAULT_MENU_HEIGHT == 200       \* menuLayout.height || 200
MENU_MARGIN == 16                \* menuPosition: margin
MENU_OFFSET == 12                \* menuPosition: position.y + 12
LIST_DEFAULT_MENU_WIDTH == 260   \* NotesListScreen: menuLayout.width || 260
LIST_DEFAULT_MENU_HEIGHT == 220  \* NotesListScreen: menuLayout.height || 220

\* input alphabets (screen-space gesture translations, pinch factors in
\* ScaleUnit units)
DragDeltas == {<<60, -30>>, <<-120, 60>>}
UpdateDeltas == {<<60, -30>>}
PanDeltas == {<<30, 0>>, <<-30, 60>>}
PinchFactors == {10, 300, 1000}
\* window sizes (portrait, landscape, a small split window), long-press
\* points, measured sizes of the context menu
Windows == {<<400, 800>>, <<800, 400>>, <<320, 480>>}
TouchPoints == {<<200, 175>>, <<110, 240>>, <<290, 110>>}
MenuSizes == {<<220, 200>>, <<250, 260>>}

\* --------------------------------------------------------------- variables
VARIABLES
    \* React state as of the last render, and the result of the queued updates
    noteNodes, noteNodesNext,
    contextMenuState, contextMenuNext,
    notes, notesNext,
    isNotePickerVisible, notePickerNext,
    menuLayout, menuLayoutNext,
    \* useWindowDimensions(); the point of the window a long press lands on
    \* (event.absoluteX, event.absoluteY)
    windowDimensions, touchPoint,
    \* refs
    dragStartRef,
    \* shared values (UI thread); scaleAnim, txAnim, tyAnim are the targets of
    \* the running withSpring animations (equal to the value when none runs)
    canvasPanEnabled,
    translateX, translateY, scale,
    txAnim, tyAnim, scaleAnim,
    lastTranslateX, lastTranslateY, lastScale,
    \* gesture recognisers: per node Race(pan, longPress); canvas pan, pinch
    panSt, lpSt, canvasPanSt, pinchSt,
    \* runOnJS calls not yet run by the JS thread
    jsQueue,
    \* the store: rows, statements in flight, loadNotes/createNewNote progress
    db, dbQueue, loadSt, loadResult,
    \* history: the origin each live drag captured, the drags aborted by a
    \* removal, event counters
    origin, aborted, nTouch, nCanvas, nFrames,
    \* per node, the recogniser of the Race that activated in the latest touch
    winner,
    \* translateX, translateY at the start of the canvas pan in progress
    panOrigin

vars == <<noteNodes, noteNodesNext, contextMenuState, contextMenuNext, notes,
          notesNext, isNotePickerVisible, notePickerNext, dragStartRef, canvasPanEnabled, translateX, translateY,
          scale, txAnim, tyAnim, scaleAnim, lastTranslateX,
          lastTranslateY, lastScale, panSt, lpSt, canvasPanSt, pinchSt, jsQueue, db, dbQueue,
          loadSt, loadResult, origin, aborted, nTouch, nCanvas,
          nFrames, menuLayout, menuLayoutNext, windowDimensions, touchPoint,
          winner, panOrigin>>

pickerVars == <<isNotePickerVisible, notePickerNext>>
menuVars == <<menuLayout, menuLayoutNext, windowDimensions, touchPoint>>
reactVars == <<noteNodes, noteNodesNext, contextMenuState, contextMenuNext,
               notes, notesNext, pickerVars>>
anims == <<txAnim, tyAnim, scaleAnim>>
viewVars == <<translateX, translateY, scale, anims, lastTranslateX,
              lastTranslateY, lastScale>>
gestureVars == <<panSt, lpSt, canvasPanSt, pinchSt>>
storeVars == <<db, dbQueue, loadSt, loadResult>>
sharedVars == <<canvasPanEnabled, viewVars>>
histVars == <<origin, aborted, winner, panOrigin>>
countVars == <<nTouch, nCanvas, nFrames>>

\* ----------------------------------------------------------------- helpers
None == <<>>                     \* null / undefined
Some(v) == <<v>>

Min(a, b) == IF a < b THEN a ELSE b
Max(a, b) == IF a > b THEN a ELSE b

Ids(nodes) == {nodes[i].id : i \in DOMAIN nodes}

\* Array.prototype.findIndex, 0 standing for -1
FindIndex(nodes, id) ==
    IF \E i \in DOMAIN nodes : nodes[i].id = id
    THEN CHOOSE i \in DOMAIN nodes :
            /\ nodes[i].id = id
            /\ \A j \in DOMAIN nodes : nodes[j].id = id => i <= j
    ELSE 0

\* Array.prototype.filter((item) => item.id !== id)
RECURSIVE FilterOut(_, _)
FilterOut(nodes, id) ==
    IF nodes = <<>> THEN <<>>
    ELSE IF Head(nodes).id = id THEN FilterOut(Tail(nodes), id)
    ELSE <<Head(nodes)>> \o FilterOut(Tail(nodes), id)

\* prev.map((node) => node.id === nodeId ? { ...node, x, y } : node)
MoveNode(nodes, id, x, y) ==
    [i \in DOMAIN nodes |->
        IF nodes[i].id = id THEN [nodes[i] EXCEPT !.x = x, !.y = y] ELSE nodes[i]]

\* splice(index, 1)
RemoveAt(s, i) == SubSeq(s, 1, i - 1) \o SubSeq(s, i + 1, Len(s))

\* DivScale with the division by the scale left out
DivScaleIgnoringScale(a, s) == a

\* scale is a fixed point number: a / s and a * s for a screen or canvas length
DivScale(a, s) == (a * ScaleUnit) \div s
MulScale(a, s) == (a * s) \div ScaleUnit

\* ------------------------------------------------------------------- store
\* A row of table notes: positionX, positionY are None (NULL) or Some(v)
Row(px, py) == [px |-> px, py |-> py]
UnplacedRow == Row(None, None)
PlacedRow(x, y) == Row(Some(x), Some(y))

\* DatabaseService.mapRowToNote: the position of the Note read from a row
MapRowPosition(row) ==
    IF row.px # None THEN Some([x |-> row.px, y |-> row.py]) ELSE None

\* a JS number from a column value: null coerces to 0 in the canvas arithmetic
ToNumber(v) == IF v = None THEN 0 ELSE v[1]

\* DatabaseService.getAllNotes: id -> None (no row) or Some(position or None)
GetAllNotes(d) ==
    [n \in NoteIds |-> IF d[n] = None THEN None ELSE Some(MapRowPosition(d[n][1]))]

\* the statements: createNote, updateNotePosition(id, pos), (id, null), getAllNotes
InsertOp(id, x, y) == [op |-> "insert", id |-> id, x |-> x, y |-> y]
SaveOp(id, x, y) == [op |-> "save", id |-> id, x |-> x, y |-> y]
\* ClearOp that stores the position (0, 0) instead of null
ClearOpAsSave(id) == [op |-> "save", id |-> id, x |-> 0, y |-> 0]
ClearOp(id) == [op |-> "clear", id |-> id, x |-> 0, y |-> 0]
ReadOp == [op |-> "read", id |-> "", x |-> 0, y |-> 0]

\* createNote binds note.position?.x || null: a coordinate 0 is stored as NULL
OrNull(v) == IF v = 0 THEN None ELSE Some(v)

\* the effect of one statement on the table
ExecuteSql(d, o) ==
    CASE o.op = "insert" -> [d EXCEPT ![o.id] = Some(Row(OrNull(o.x), OrNull(o.y)))]
      [] o.op = "save" ->
            IF d[o.id] = None THEN d ELSE [d EXCEPT ![o.id] = Some(PlacedRow(o.x, o.y))]
      [] o.op = "clear" ->
            IF d[o.id] = None THEN d ELSE [d EXCEPT ![o.id] = Some(UnplacedRow)]
      [] OTHER -> d

\* loadNotes: the nodes built from the notes that have a position, in the
\* order getAllNotes returns them
RECURSIVE NodesOf(_, _)
NodesOf(all, order) ==
    IF order = <<>> THEN <<>>
    ELSE LET n == Head(order)
             rest == NodesOf(all, Tail(order))
         IN IF all[n] # None /\ all[n][1] # None
            THEN <<[id |-> n, x |-> ToNumber(all[n][1][1].x),
                    y |-> ToNumber(all[n][1][1].y), isPinned |-> FALSE]>> \o rest
            ELSE rest

\* ORDER BY lastModified DESC: the timestamps are not modelled, any order of
\* the rows can come back
RowOrders ==
    {o \in [1 .. Cardinality(NoteIds) -> NoteIds] :
        \A i, j \in DOMAIN o : o[i] = o[j] => i = j}

\* -------------------------------------------------------------------- Init
\* Stores the screen can be mounted on: A is placed, B is unplaced (picker)
\* or placed far from A (canvas), C does not exist yet.
StoreWith(b) ==
    [n \in NoteIds |->
        CASE n = "A" -> Some(PlacedRow(100, 100))
          [] n = "B" -> Some(b)
          [] OTHER -> None]
CanvasDb == StoreWith(PlacedRow(3000, 100))
PickerDb == StoreWith(UnplacedRow)

\* The component as constructed (useState / useSharedValue / useRef initial
\* values), with the loadNotes of the mount effect in flight.
InitAt(store, point, window) ==
    /\ noteNodes = <<>> /\ noteNodesNext = <<>>
    /\ contextMenuState = None /\ contextMenuNext = None
    /\ notes = {} /\ notesNext = {}
    /\ isNotePickerVisible = FALSE /\ notePickerNext = FALSE
    /\ dragStartRef = [n \in NoteIds |-> None]
    /\ canvasPanEnabled = TRUE
    /\ translateX = 0 /\ translateY = 0 /\ scale = ScaleUnit
    /\ txAnim = 0 /\ tyAnim = 0 /\ scaleAnim = ScaleUnit
    /\ lastTranslateX = 0 /\ lastTranslateY = 0 /\ lastScale = ScaleUnit
    /\ panSt = [n \in NoteIds |-> "idle"] /\ lpSt = [n \in NoteIds |-> "idle"]
    /\ canvasPanSt = "idle" /\ pinchSt = "idle"
    /\ jsQueue = <<>>
    /\ db = store
    /\ dbQueue = <<ReadOp>> /\ loadSt = "reading" /\ loadResult = None
    /\ origin = [n \in NoteIds |-> None] /\ aborted = [n \in NoteIds |-> FALSE]
    /\ winner = [n \in NoteIds |-> "none"]
    /\ panOrigin = None
    /\ nTouch = 0 /\ nCanvas = 0 /\ nFrames = 0
    /\ menuLayout = <<0, 0>> /\ menuLayoutNext = <<0, 0>>
    /\ windowDimensions = window /\ touchPoint = point

\* a portrait window, presses in the middle of node A
InitWith(store) == InitAt(store, <<200, 175>>, <<screenWidth, screenHeight>>)

\* ------------------------------------------------------------------- React
\* React commits the queued updates: the component re-renders, the effects
\* copy the state into noteNodesRef / contextMenuStateRef.
Render ==
    /\ <<noteNodes, contextMenuState, notes, isNotePickerVisible, menuLayout>> #
            <<noteNodesNext, contextMenuNext, notesNext, notePickerNext, menuLayoutNext>>
    /\ noteNodes' = noteNodesNext
    /\ contextMenuState' = contextMenuNext
    /\ notes' = notesNext
    /\ isNotePickerVisible' = notePickerNext
    /\ menuLayout' = menuLayoutNext
    /\ UNCHANGED <<touchPoint, windowDimensions, menuLayoutNext, noteNodesNext, contextMenuNext, notesNext, notePickerNext, dragStartRef,
                   sharedVars, gestureVars, jsQueue, storeVars, histVars, countVars>>

\* ------------------------------------------------------------------- store
\* AfterSettle that issues a rejected statement again
AfterSettleRetry(q, ok) ==
    IF ok
    THEN IF Head(q).op = "insert" THEN Append(Tail(q), ReadOp) ELSE Tail(q)
    ELSE Append(Tail(q), Head(q))

\* The statements in flight once the one at the head has settled: a createNote
\* that resolved is followed by the getAllNotes of loadNotes; a rejection is
\* caught and logged (console.error), nothing is issued for it.
AfterSettle(q, ok) ==
    IF ok /\ Head(q).op = "insert" THEN Append(Tail(q), ReadOp) ELSE Tail(q)

\* The store runs the statement at the head of its queue (ok) or rejects it.
\* A createNote that resolves lets createNewNote go on to loadNotes, which
\* issues getAllNotes; a getAllNotes that resolves holds its rows until the
\* JS thread runs the continuation (LoadDeliver).
DbComplete(ok) ==
    /\ dbQueue # <<>>
    /\ LET o == Head(dbQueue) IN
        /\ db' = IF ok THEN ExecuteSql(db, o) ELSE db
        /\ dbQueue' = AfterSettle(dbQueue, ok)
        /\ CASE o.op = "insert" ->
                    /\ loadSt' = IF ok THEN "reading" ELSE "idle"
                    /\ loadResult' = loadResult
             [] o.op = "read" ->
                    /\ loadSt' = IF ok THEN "delivering" ELSE "idle"
                    /\ loadResult' = IF ok THEN Some(GetAllNotes(db)) ELSE None
             [] OTHER ->
                    /\ UNCHANGED <<loadSt, loadResult>>
    /\ UNCHANGED <<menuVars, reactVars, dragStartRef, sharedVars, gestureVars, jsQueue,
                   histVars, countVars>>

\* loadNotes after await getAllNotes(): setNotes(allNotes); setNoteNodes(nodes)
LoadDeliver(order) ==
    /\ loadSt = "delivering"
    /\ LET all == loadResult[1] IN
        /\ notesNext' = {n \in NoteIds : all[n] # None}
        /\ noteNodesNext' = NodesOf(all, order)
    /\ loadSt' = "idle" /\ loadResult' = None
    /\ UNCHANGED <<menuVars, pickerVars, noteNodes, contextMenuState, contextMenuNext, notes,
                   dragStartRef, sharedVars, gestureVars, jsQueue, db, dbQueue,
                   histVars, countVars>>

\* A Modal that is visible (the note picker, the context menu) covers the
\* screen: no new touch reaches the canvas, the header or the FAB under it.
ModalVisible == isNotePickerVisible \/ contextMenuState # None

\* The JS thread runs its tasks in arrival order: a press is handled after
\* the runOnJS calls that were queued before it.
PressHandled == jsQueue = <<>>

\* ------------------------------------------------------- node gestures (UI)
\* A runOnJS call.  dx, dy are the arguments the worklet computed; tx, ty, s
\* record the event translation and the scale it read (history only).
Call(op, id, dx, dy, tx, ty, s) ==
    [op |-> op, id |-> id, dx |-> dx, dy |-> dy, tx |-> tx, ty |-> ty, s |-> s]
Call0(op, id) == Call(op, id, 0, 0, 0, 0, 0)

\* PanGestureEnabled without .enabled(!node.isPinned)
PanGestureAlwaysEnabled(n) == TRUE

\* .enabled(!node.isPinned), as of the render that built the gesture
PanGestureEnabled(n) == ~noteNodes[FindIndex(noteNodes, n)].isPinned

\* A finger goes down on the rendered node n: both recognisers of
\* Race(notePanGesture, noteLongPressGesture) begin.  notePanGesture.onBegin
\* disarms canvas panning and calls handleNodeDragStartJS.
TouchDown(n) ==
    /\ ~ModalVisible
    /\ n \in Ids(noteNodes)
    /\ panSt[n] = "idle" /\ lpSt[n] = "idle"
    /\ nTouch < MaxTouches
    /\ Len(jsQueue) < MaxQueue
    /\ nTouch' = nTouch + 1
    /\ lpSt' = [lpSt EXCEPT ![n] = "began"]
    /\ IF PanGestureEnabled(n)
       THEN /\ panSt' = [panSt EXCEPT ![n] = "began"]
            /\ canvasPanEnabled' = FALSE
            /\ jsQueue' = Append(jsQueue, Call0("dragStart", n))
       ELSE UNCHANGED <<panSt, canvasPanEnabled, jsQueue>>
    /\ winner' = [winner EXCEPT ![n] = "none"]
    /\ UNCHANGED <<menuVars, reactVars, dragStartRef, viewVars, canvasPanSt, pinchSt,
                   storeVars, origin, aborted, panOrigin, nCanvas, nFrames>>

\* PanActivate that leaves the long press of the touch running
PanActivateWithoutRace(n) ==
    /\ panSt[n] = "began" /\ lpSt[n] = "began"
    /\ panSt' = [panSt EXCEPT ![n] = "active"]
    /\ winner' = [winner EXCEPT ![n] = "pan"]
    /\ UNCHANGED <<menuVars, reactVars, dragStartRef, sharedVars, lpSt, canvasPanSt,
                   pinchSt, jsQueue, storeVars, origin, aborted, panOrigin, countVars>>

\* The finger moved minDistance(1): the pan wins the race and the long press
\* is cancelled (noteLongPressGesture.onFinalize -> handleLongPressFinalize).
PanActivate(n) ==
    /\ panSt[n] = "began" /\ lpSt[n] = "began"
    /\ Len(jsQueue) < MaxQueue
    /\ panSt' = [panSt EXCEPT ![n] = "active"]
    /\ lpSt' = [lpSt EXCEPT ![n] = "idle"]
    /\ jsQueue' = Append(jsQueue, Call0("longPressFinalize", n))
    /\ winner' = [winner EXCEPT ![n] = "pan"]
    /\ UNCHANGED <<menuVars, reactVars, dragStartRef, sharedVars, canvasPanSt, pinchSt,
                   storeVars, origin, aborted, panOrigin, countVars>>

\* notePanGesture.onUpdate
PanUpdate(n, d) ==
    /\ panSt[n] = "active"
    /\ Len(jsQueue) < MaxQueue
    /\ LET currentScale == scale IN
       jsQueue' = Append(jsQueue,
            Call("dragUpdate", n, DivScale(d[1], currentScale),
                 DivScale(d[2], currentScale), d[1], d[2], currentScale))
    /\ UNCHANGED <<menuVars, reactVars, dragStartRef, sharedVars, gestureVars, storeVars,
                   histVars, countVars>>

\* The finger is lifted (or the gesture is cancelled) while the pan is active:
\* notePanGesture.onEnd, then onFinalize.
PanEnd(n, d) ==
    /\ panSt[n] = "active"
    /\ Len(jsQueue) + 2 <= MaxQueue
    /\ LET currentScale == scale IN
       jsQueue' = jsQueue \o
            <<Call("dragEnd", n, DivScale(d[1], currentScale),
                   DivScale(d[2], currentScale), d[1], d[2], currentScale),
              Call0("dragFinalize", n)>>
    /\ canvasPanEnabled' = TRUE
    /\ panSt' = [panSt EXCEPT ![n] = "idle"]
    /\ UNCHANGED <<menuVars, reactVars, dragStartRef, viewVars, lpSt, canvasPanSt, pinchSt,
                   storeVars, histVars, countVars>>

\* The press lasted minDuration(450): the long press wins the race
\* (noteLongPressGesture.onStart -> openNodeContextMenu) and a pan that had
\* begun is cancelled (notePanGesture.onFinalize).
LongPressActivate(n) ==
    /\ lpSt[n] = "began" /\ panSt[n] # "active"
    /\ Len(jsQueue) + 2 <= MaxQueue
    /\ lpSt' = [lpSt EXCEPT ![n] = "active"]
    /\ IF panSt[n] = "began"
       THEN /\ panSt' = [panSt EXCEPT ![n] = "idle"]
            /\ canvasPanEnabled' = TRUE
            /\ jsQueue' = jsQueue \o
                    <<Call0("dragFinalize", n),
                      Call("openMenu", n, touchPoint[1], touchPoint[2], 0, 0, 0)>>
       ELSE /\ jsQueue' = Append(jsQueue,
                        Call("openMenu", n, touchPoint[1], touchPoint[2], 0, 0, 0))
            /\ UNCHANGED <<panSt, canvasPanEnabled>>
    /\ winner' = [winner EXCEPT ![n] = "longPress"]
    /\ UNCHANGED <<menuVars, reactVars, dragStartRef, viewVars, canvasPanSt, pinchSt,
                   storeVars, origin, aborted, panOrigin, countVars>>

\* The finger is lifted: a long press that is active ends, recognisers that
\* had only begun fail; each runs its onFinalize.
TouchUp(n) ==
    /\ lpSt[n] # "idle" /\ panSt[n] # "active"
    /\ Len(jsQueue) + 2 <= MaxQueue
    /\ lpSt' = [lpSt EXCEPT ![n] = "idle"]
    /\ IF panSt[n] = "began"
       THEN /\ panSt' = [panSt EXCEPT ![n] = "idle"]
            /\ canvasPanEnabled' = TRUE
            /\ jsQueue' = jsQueue \o
                    <<Call0("dragFinalize", n), Call0("longPressFinalize", n)>>
       ELSE /\ jsQueue' = Append(jsQueue, Call0("longPressFinalize", n))
            /\ UNCHANGED <<panSt, canvasPanEnabled>>
    /\ UNCHANGED <<menuVars, reactVars, dragStartRef, viewVars, canvasPanSt, pinchSt,
                   storeVars, histVars, countVars>>

\* ------------------------------------------------- runOnJS callbacks (JS)
\* DeleteDragStart that leaves the entry in place
KeepDragStart(ref, id) == ref

\* delete dragStartRef.current[id]
DeleteDragStart(ref, id) == [ref EXCEPT ![id] = None]

\* The JS thread runs the call at the head of the queue.
NextCall(op) == jsQueue # <<>> /\ Head(jsQueue).op = op

handleNodeDragStartJS ==
    /\ NextCall("dragStart")
    /\ LET nodeId == Head(jsQueue).id
           index == FindIndex(noteNodes, nodeId)       \* noteNodesRef.current
       IN IF index = 0
          THEN UNCHANGED <<dragStartRef, origin, aborted>>
          ELSE LET node == noteNodes[index] IN
               /\ dragStartRef' = [dragStartRef EXCEPT ![nodeId] = Some(<<node.x, node.y>>)]
               /\ origin' = [origin EXCEPT ![nodeId] = Some(<<node.x, node.y>>)]
               /\ aborted' = [aborted EXCEPT ![nodeId] = FALSE]
    /\ jsQueue' = Tail(jsQueue)
    /\ UNCHANGED <<menuVars, reactVars, sharedVars, gestureVars, storeVars, countVars,
                   winner, panOrigin>>

handleNodeDragUpdateJS ==
    /\ NextCall("dragUpdate")
    /\ LET c == Head(jsQueue)
           start == dragStartRef[c.id]
       IN IF start = None
          THEN UNCHANGED noteNodesNext
          ELSE noteNodesNext' =
                 MoveNode(noteNodesNext, c.id, start[1][1] + c.dx, start[1][2] + c.dy)
    /\ jsQueue' = Tail(jsQueue)
    /\ UNCHANGED <<menuVars, pickerVars, noteNodes, contextMenuState, contextMenuNext, notes, notesNext,
                   dragStartRef, sharedVars, gestureVars, storeVars, histVars,
                   countVars>>

\* persistNotePosition: updateNotePosition is issued, its outcome is only logged
persistNotePosition(noteId, x, y) == dbQueue' = Append(dbQueue, SaveOp(noteId, x, y))

\* handleNodeDragEndJS that falls back on the origin (0, 0) for a missing session
handleNodeDragEndJSWithFallback ==
    /\ NextCall("dragEnd")
    /\ LET c == Head(jsQueue)
           start == IF dragStartRef[c.id] = None THEN Some(<<0, 0>>) ELSE dragStartRef[c.id]
           newX == start[1][1] + c.dx
           newY == start[1][2] + c.dy
       IN /\ Len(dbQueue) < MaxDbQueue
          /\ dragStartRef' = [dragStartRef EXCEPT ![c.id] = Some(<<newX, newY>>)]
          /\ noteNodesNext' = MoveNode(noteNodesNext, c.id, newX, newY)
          /\ persistNotePosition(c.id, newX, newY)
    /\ jsQueue' = Tail(jsQueue)
    /\ UNCHANGED <<menuVars, pickerVars, noteNodes, contextMenuState, contextMenuNext, notes,
                   notesNext, sharedVars, gestureVars, db, loadSt, loadResult, histVars,
                   countVars>>

handleNodeDragEndJS ==
    /\ NextCall("dragEnd")
    /\ LET c == Head(jsQueue)
           start == dragStartRef[c.id]
       IN IF start = None
          THEN UNCHANGED <<noteNodesNext, dragStartRef, dbQueue>>
          ELSE LET newX == start[1][1] + c.dx
                   newY == start[1][2] + c.dy
               IN /\ Len(dbQueue) < MaxDbQueue
                  /\ dragStartRef' = [dragStartRef EXCEPT ![c.id] = Some(<<newX, newY>>)]
                  /\ noteNodesNext' = MoveNode(noteNodesNext, c.id, newX, newY)
                  /\ persistNotePosition(c.id, newX, newY)
    /\ jsQueue' = Tail(jsQueue)
    /\ UNCHANGED <<menuVars, pickerVars, noteNodes, contextMenuState, contextMenuNext, notes, notesNext,
                   sharedVars, gestureVars, db, loadSt, loadResult, histVars,
                   countVars>>

handleNodeDragFinalizeJS ==
    /\ NextCall("dragFinalize")
    /\ dragStartRef' = DeleteDragStart(dragStartRef, Head(jsQueue).id)
    /\ origin' = [origin EXCEPT ![Head(jsQueue).id] = None]
    /\ jsQueue' = Tail(jsQueue)
    /\ UNCHANGED <<menuVars, reactVars, sharedVars, gestureVars, storeVars, aborted, countVars,
                   winner, panOrigin>>

\* the node of the menu: what the handlers read from it
MenuOf(node, x, y) ==
    Some([id |-> node.id, isPinned |-> node.isPinned, position |-> <<x, y>>])

openNodeContextMenu ==
    /\ NextCall("openMenu")
    /\ LET index == FindIndex(noteNodes, Head(jsQueue).id)   \* noteNodesRef.current
       IN IF index = 0
          THEN UNCHANGED <<canvasPanEnabled, contextMenuNext>>
          ELSE /\ canvasPanEnabled' = FALSE
               /\ contextMenuNext' =
                        MenuOf(noteNodes[index], Head(jsQueue).dx, Head(jsQueue).dy)
    /\ jsQueue' = Tail(jsQueue)
    /\ UNCHANGED <<menuVars, pickerVars, noteNodes, noteNodesNext, contextMenuState, notes, notesNext,
                   dragStartRef, viewVars, gestureVars, storeVars, histVars,
                   countVars>>

handleLongPressFinalize ==
    /\ NextCall("longPressFinalize")
    /\ canvasPanEnabled' =
            IF contextMenuState = None THEN TRUE ELSE canvasPanEnabled
                                                  \* contextMenuStateRef.current
    /\ jsQueue' = Tail(jsQueue)
    /\ UNCHANGED <<menuVars, reactVars, dragStartRef, viewVars, gestureVars, storeVars,
                   histVars, countVars>>

\* ------------------------------------------------------ context menu (JS)
\* menuLayout.width || 220: the estimate until the menu is measured
OrDefault(v, d) == IF v = 0 THEN d ELSE v

\* MenuLeft without centring the menu on the anchor
MenuLeftUncentred(x, w, W) ==
    Min(Max(x, MENU_MARGIN), Max(MENU_MARGIN, W - MENU_MARGIN - w))

\* menuPosition: top and left for anchor (x, y), menu size (w, h) and window
\* size (W, H)
MenuTop(y, h, H) ==
    Min(Max(y + MENU_OFFSET, MENU_MARGIN), Max(MENU_MARGIN, H - MENU_MARGIN - h))
MenuLeft(x, w, W) ==
    Min(Max(x - w \div 2, MENU_MARGIN), Max(MENU_MARGIN, W - MENU_MARGIN - w))

\* menuPosition (useMemo over contextMenuState, menuLayout, windowDimensions)
menuPosition ==
    IF contextMenuState = None
    THEN [top |-> 0, left |-> 0]
    ELSE [top |-> MenuTop(contextMenuState[1].position[2],
                          OrDefault(menuLayout[2], DEFAULT_MENU_HEIGHT),
                          windowDimensions[2]),
          left |-> MenuLeft(contextMenuState[1].position[1],
                            OrDefault(menuLayout[1], DEFAULT_MENU_WIDTH),
                            windowDimensions[1])]

\* menuPosition of NotesListScreen: top and left
ListMenuTop(pageY, h, H) ==
    LET preferredTop == pageY + MENU_OFFSET
        maximumTop == H - MENU_MARGIN - h
        flipped == pageY - h - MENU_OFFSET
    IN IF preferredTop > maximumTop
       THEN IF flipped < MENU_MARGIN THEN Max(MENU_MARGIN, maximumTop) ELSE flipped
       ELSE IF preferredTop < MENU_MARGIN THEN MENU_MARGIN ELSE preferredTop
ListMenuLeft(pageX, w, W) ==
    LET left == pageX - w \div 2
    IN IF left < MENU_MARGIN THEN MENU_MARGIN
       ELSE IF left > W - w - MENU_MARGIN THEN W - w - MENU_MARGIN
       ELSE left

\* onLayout of the menu container: setMenuLayout({ width, height }) when the
\* measured size differs from the rendered menuLayout
MenuOnLayout(size) ==
    /\ contextMenuState # None
    /\ menuLayout # size
    /\ menuLayoutNext' = size
    /\ UNCHANGED <<menuLayout, windowDimensions, touchPoint, reactVars, dragStartRef,
                   sharedVars, gestureVars, jsQueue, storeVars, histVars, countVars>>

\* closeContextMenu without canvasPanEnabled.value = true
closeContextMenuWithoutRearm ==
    /\ contextMenuState # None
    /\ PressHandled
    /\ contextMenuNext' = None
    /\ UNCHANGED <<menuVars, pickerVars, noteNodes, noteNodesNext, contextMenuState, notes,
                   notesNext, dragStartRef, sharedVars, gestureVars, jsQueue, storeVars,
                   histVars, countVars>>

\* closeContextMenu, from the overlay press or onRequestClose of the Modal
\* that is visible while the rendered contextMenuState is set
closeContextMenu ==
    /\ contextMenuState # None
    /\ PressHandled
    /\ contextMenuNext' = None
    /\ canvasPanEnabled' = TRUE
    /\ UNCHANGED <<menuVars, pickerVars, noteNodes, noteNodesNext, contextMenuState, notes, notesNext,
                   dragStartRef, viewVars, gestureVars, jsQueue, storeVars,
                   histVars, countVars>>

\* LayerUp that moves the node one place up
LayerUpByOne(prev, id) ==
    LET index == FindIndex(prev, id) IN
    IF index = 0 \/ index = Len(prev) THEN prev
    ELSE [i \in DOMAIN prev |->
            IF i = index THEN prev[index + 1]
            ELSE IF i = index + 1 THEN prev[index] ELSE prev[i]]

\* setNoteNodes updater of case 'layer-up'
LayerUp(prev, id) ==
    LET index == FindIndex(prev, id) IN
    IF index = 0 \/ index = Len(prev) THEN prev
    ELSE Append(RemoveAt(prev, index), prev[index])

\* setNoteNodes updater of case 'layer-down'
LayerDown(prev, id) ==
    LET index == FindIndex(prev, id) IN
    IF index <= 1 THEN prev
    ELSE <<prev[index]>> \o RemoveAt(prev, index)

\* setNoteNodes updater of case 'pin'
TogglePin(prev, id) ==
    [i \in DOMAIN prev |->
        IF prev[i].id = id THEN [prev[i] EXCEPT !.isPinned = ~prev[i].isPinned]
        ELSE prev[i]]

MenuActionIds == {"layer-up", "layer-down", "pin", "remove"}

\* handleCanvasMenuAction(actionId), from the Pressable of a menu action
handleCanvasMenuAction(actionId) ==
    /\ contextMenuState # None
    /\ PressHandled
    /\ LET node == contextMenuState[1] IN
        /\ contextMenuNext' = None                     \* closeContextMenu()
        /\ canvasPanEnabled' = TRUE
        /\ CASE actionId = "layer-up" ->
                    /\ noteNodesNext' = LayerUp(noteNodesNext, node.id)
                    /\ UNCHANGED <<dragStartRef, dbQueue, aborted>>
             [] actionId = "layer-down" ->
                    /\ noteNodesNext' = LayerDown(noteNodesNext, node.id)
                    /\ UNCHANGED <<dragStartRef, dbQueue, aborted>>
             [] actionId = "pin" ->
                    /\ noteNodesNext' = TogglePin(noteNodesNext, node.id)
                    /\ UNCHANGED <<dragStartRef, dbQueue, aborted>>
             [] actionId = "remove" ->
                    /\ Len(dbQueue) < MaxDbQueue
                    /\ noteNodesNext' = FilterOut(noteNodesNext, node.id)
                    /\ dragStartRef' = DeleteDragStart(dragStartRef, node.id)
                    /\ dbQueue' = Append(dbQueue, ClearOp(node.id))
                    /\ aborted' = [aborted EXCEPT
                                     ![node.id] = @ \/ dragStartRef[node.id] # None]
    /\ UNCHANGED <<menuVars, pickerVars, noteNodes, contextMenuState, notes, notesNext, viewVars,
                   gestureVars, jsQueue, db, loadSt, loadResult, origin, countVars,
                   winner, panOrigin>>

\* ---------------------------------------------------- canvas gestures (UI)
\* panGesture.onStart
CanvasPanStart ==
    /\ ~ModalVisible
    /\ canvasPanSt = "idle"
    /\ nCanvas < MaxCanvasGestures
    /\ nCanvas' = nCanvas + 1
    /\ canvasPanSt' = "active"
    /\ IF ~canvasPanEnabled
       THEN UNCHANGED <<lastTranslateX, lastTranslateY>>
       ELSE /\ lastTranslateX' = translateX
            /\ lastTranslateY' = translateY
    /\ panOrigin' = Some(<<translateX, translateY>>)
    /\ UNCHANGED <<menuVars, reactVars, dragStartRef, canvasPanEnabled, translateX, translateY,
                   scale, anims, lastScale, panSt, lpSt, pinchSt, jsQueue, storeVars,
                   origin, aborted, winner, nTouch, nFrames>>

\* panGesture.onUpdate; writing a shared value ends its animation
CanvasPanUpdate(d) ==
    /\ canvasPanSt = "active"
    /\ IF ~canvasPanEnabled
       THEN UNCHANGED <<translateX, translateY, txAnim, tyAnim>>
       ELSE /\ translateX' = lastTranslateX + d[1]
            /\ translateY' = lastTranslateY + d[2]
            /\ txAnim' = lastTranslateX + d[1]
            /\ tyAnim' = lastTranslateY + d[2]
    /\ UNCHANGED <<menuVars, reactVars, dragStartRef, canvasPanEnabled, scale, scaleAnim,
                   lastTranslateX, lastTranslateY, lastScale, gestureVars,
                   jsQueue, storeVars, histVars, countVars>>

\* panGesture.onEnd
CanvasPanEnd ==
    /\ canvasPanSt = "active"
    /\ canvasPanSt' = "idle"
    /\ panOrigin' = None
    /\ UNCHANGED <<menuVars, reactVars, dragStartRef, sharedVars, panSt, lpSt, pinchSt,
                   jsQueue, storeVars, origin, aborted, winner, countVars>>

\* pinchGesture.onStart
PinchStart ==
    /\ ~ModalVisible
    /\ pinchSt = "idle"
    /\ nCanvas < MaxCanvasGestures
    /\ nCanvas' = nCanvas + 1
    /\ pinchSt' = "active"
    /\ lastScale' = scale
    /\ UNCHANGED <<menuVars, reactVars, dragStartRef, canvasPanEnabled, translateX, translateY,
                   scale, anims, lastTranslateX, lastTranslateY, panSt, lpSt,
                   canvasPanSt, jsQueue, storeVars, histVars, nTouch, nFrames>>

\* PinchScale without the clamp
PinchScaleUnclamped(last, f) == MulScale(last, f)

\* Math.max(0.1, Math.min(5, lastScale.value * event.scale))
PinchScale(last, f) == Max(MIN_SCALE, Min(MAX_SCALE, MulScale(last, f)))

\* pinchGesture.onUpdate
PinchUpdate(f) ==
    /\ pinchSt = "active"
    /\ scale' = PinchScale(lastScale, f)
    /\ scaleAnim' = PinchScale(lastScale, f)
    /\ UNCHANGED <<menuVars, reactVars, dragStartRef, canvasPanEnabled, translateX, translateY,
                   txAnim, tyAnim, lastTranslateX, lastTranslateY, lastScale,
                   gestureVars, jsQueue, storeVars, histVars, countVars>>

\* SnapTarget without the two snaps
SnapTargetNoSnap(sc, target) == target

\* the target pinchGesture.onEnd gives a scale: withSpring(0.5), withSpring(3),
\* or none (the running animation, if any, keeps its target)
SnapTarget(sc, target) ==
    IF sc < SNAP_LOW THEN SNAP_LOW
    ELSE IF sc > SNAP_HIGH THEN SNAP_HIGH
    ELSE target

\* pinchGesture.onEnd
PinchEnd ==
    /\ pinchSt = "active"
    /\ pinchSt' = "idle"
    /\ scaleAnim' = SnapTarget(scale, scaleAnim)
    /\ UNCHANGED <<menuVars, reactVars, dragStartRef, canvasPanEnabled, translateX, translateY,
                   scale, txAnim, tyAnim, lastTranslateX, lastTranslateY, lastScale,
                   panSt, lpSt, canvasPanSt, jsQueue, storeVars, histVars, countVars>>

\* A frame of the running withSpring animations: every animated value moves
\* halfway to its target (an intermediate frame) or (finish) reaches it.
Frame(v, target, finish) == IF finish THEN target ELSE (v + target) \div 2

AnimationFrame(finish) ==
    /\ <<translateX, translateY, scale>> # <<txAnim, tyAnim, scaleAnim>>
    /\ finish \/ nFrames < MaxMidFrames
    /\ translateX' = Frame(translateX, txAnim, finish)
    /\ translateY' = Frame(translateY, tyAnim, finish)
    /\ scale' = Frame(scale, scaleAnim, finish)
    /\ nFrames' = IF finish THEN nFrames ELSE nFrames + 1
    /\ UNCHANGED <<menuVars, reactVars, dragStartRef, canvasPanEnabled, txAnim, tyAnim,
                   scaleAnim, lastTranslateX, lastTranslateY, lastScale, gestureVars,
                   jsQueue, storeVars, histVars, nTouch, nCanvas>>

\* ------------------------------------------------------- header buttons (JS)
resetView ==
    /\ ~ModalVisible
    /\ PressHandled
    /\ txAnim' = 0 /\ tyAnim' = 0 /\ scaleAnim' = ScaleUnit
    /\ UNCHANGED <<menuVars, reactVars, dragStartRef, canvasPanEnabled, translateX, translateY,
                   scale, lastTranslateX, lastTranslateY, lastScale, gestureVars,
                   jsQueue, storeVars, histVars, countVars>>

SetMin(S) == CHOOSE m \in S : \A e \in S : m <= e
SetMax(S) == CHOOSE m \in S : \A e \in S : m >= e

\* Bounds over the positions of the nodes, without their sizes
BoundsOfPositions(nodes) ==
    [minX |-> SetMin({nodes[i].x : i \in DOMAIN nodes}),
     maxX |-> SetMax({nodes[i].x : i \in DOMAIN nodes}),
     minY |-> SetMin({nodes[i].y : i \in DOMAIN nodes}),
     maxY |-> SetMax({nodes[i].y : i \in DOMAIN nodes})]

\* zoomToFitAll: the bounding box of the nodes
Bounds(nodes) ==
    [minX |-> SetMin({nodes[i].x : i \in DOMAIN nodes}),
     maxX |-> SetMax({nodes[i].x + NOTE_NODE_WIDTH : i \in DOMAIN nodes}),
     minY |-> SetMin({nodes[i].y : i \in DOMAIN nodes}),
     maxY |-> SetMax({nodes[i].y + NOTE_NODE_HEIGHT : i \in DOMAIN nodes})]

\* FitScale that fits the width only
FitScaleWidthOnly(nodes) ==
    Min(DivScale(screenWidth - FIT_PADDING * 2,
                 Bounds(nodes).maxX - Bounds(nodes).minX), ScaleUnit)

\* a / b for a > 0 under Math.min(..., 1): a division by 0 gives Infinity,
\* which the minimum with 1 drops
DivScaleOrOne(a, b) == IF b = 0 THEN ScaleUnit ELSE DivScale(a, b)

\* zoomToFitAll: newScale
FitScale(nodes) ==
    LET bounds == Bounds(nodes)
        contentWidth == bounds.maxX - bounds.minX
        contentHeight == bounds.maxY - bounds.minY
        scaleX == DivScaleOrOne(screenWidth - FIT_PADDING * 2, contentWidth)
        scaleY == DivScaleOrOne(screenHeight - FIT_PADDING * 2, contentHeight)
    IN Min(Min(scaleX, scaleY), ScaleUnit)

\* FitTranslateX without the multiplication by newScale
FitTranslateXUnscaled(nodes) ==
    (0 - (Bounds(nodes).minX + Bounds(nodes).maxX) \div 2) + screenWidth \div 2

\* zoomToFitAll: the translate targets
FitTranslateX(nodes) ==
    LET bounds == Bounds(nodes)
        centerX == (bounds.minX + bounds.maxX) \div 2
    IN (0 - MulScale(centerX, FitScale(nodes))) + screenWidth \div 2

FitTranslateY(nodes) ==
    LET bounds == Bounds(nodes)
        centerY == (bounds.minY + bounds.maxY) \div 2
    IN (0 - MulScale(centerY, FitScale(nodes))) + screenHeight \div 2

zoomToFitAll ==
    /\ ~ModalVisible
    /\ PressHandled
    /\ IF Len(noteNodes) = 0
       THEN UNCHANGED anims
       ELSE /\ scaleAnim' = FitScale(noteNodes)
            /\ txAnim' = FitTranslateX(noteNodes)
            /\ tyAnim' = FitTranslateY(noteNodes)
    /\ UNCHANGED <<menuVars, reactVars, dragStartRef, canvasPanEnabled, translateX, translateY,
                   scale, lastTranslateX, lastTranslateY, lastScale, gestureVars,
                   jsQueue, storeVars, histVars, countVars>>

\* handleNodePress, from the TouchableOpacity of the rendered node
handleNodePress(nodeId) ==
    /\ ~ModalVisible
    /\ PressHandled
    /\ nodeId \in Ids(noteNodes)
    /\ LET node == noteNodes[FindIndex(noteNodes, nodeId)] IN
        /\ txAnim' = (0 - node.x) + screenWidth \div 2
        /\ tyAnim' = (0 - node.y) + screenHeight \div 2
        /\ scaleAnim' = NODE_PRESS_SCALE
    /\ UNCHANGED <<menuVars, reactVars, dragStartRef, canvasPanEnabled, translateX, translateY,
                   scale, lastTranslateX, lastTranslateY, lastScale, gestureVars,
                   jsQueue, storeVars, histVars, countVars>>

\* ------------------------------------------------------- adding notes (JS)
\* the FAB: setNotePickerVisible(true)
openNotePicker ==
    /\ ~ModalVisible
    /\ PressHandled
    /\ ~notePickerNext
    /\ notePickerNext' = TRUE
    /\ UNCHANGED <<menuVars, isNotePickerVisible, noteNodes, noteNodesNext, contextMenuState,
                   contextMenuNext, notes, notesNext, dragStartRef, sharedVars,
                   gestureVars, jsQueue, storeVars, histVars, countVars>>

\* the close button of the picker, onRequestClose: setNotePickerVisible(false)
closeNotePicker ==
    /\ isNotePickerVisible
    /\ PressHandled
    /\ notePickerNext
    /\ notePickerNext' = FALSE
    /\ UNCHANGED <<menuVars, isNotePickerVisible, noteNodes, noteNodesNext, contextMenuState,
                   contextMenuNext, notes, notesNext, dragStartRef, sharedVars,
                   gestureVars, jsQueue, storeVars, histVars, countVars>>

\* computeInsertionPoint
InsertionX == DivScale(screenWidth, 2 * Max(scale, MIN_SCALE)) - translateX
                - NOTE_NODE_WIDTH \div 2
InsertionY == DivScale(screenHeight, 2 * Max(scale, MIN_SCALE)) - translateY
                - NOTE_NODE_HEIGHT \div 2

\* availableNotes, as rendered in the picker
availableNotes == {n \in notes : n \notin Ids(noteNodes)}

\* handleAddNoteToCanvas(note), from an item of the picker
handleAddNoteToCanvas(n) ==
    /\ isNotePickerVisible
    /\ PressHandled
    /\ n \in availableNotes
    /\ Len(noteNodesNext) < MaxNodes
    /\ Len(dbQueue) < MaxDbQueue
    /\ noteNodesNext' = Append(noteNodesNext,
            [id |-> n, x |-> InsertionX, y |-> InsertionY, isPinned |-> FALSE])
    /\ dbQueue' = Append(dbQueue, SaveOp(n, InsertionX, InsertionY))
    /\ notePickerNext' = FALSE
    /\ UNCHANGED <<menuVars, isNotePickerVisible, noteNodes, contextMenuState, contextMenuNext,
                   notes, notesNext, dragStartRef, sharedVars, gestureVars, jsQueue, db, loadSt,
                   loadResult, histVars, countVars>>

\* handleCreateNoteFromPicker -> createNewNote: createNote is issued with the
\* insertion point; loadNotes follows when it resolves (DbComplete).  One
\* load runs at a time.
createNewNote(id) ==
    /\ isNotePickerVisible
    /\ PressHandled
    /\ db[id] = None
    /\ loadSt = "idle"
    /\ Len(dbQueue) < MaxDbQueue
    /\ dbQueue' = Append(dbQueue, InsertOp(id, InsertionX, InsertionY))
    /\ loadSt' = "inserting"
    /\ notePickerNext' = FALSE
    /\ UNCHANGED <<menuVars, isNotePickerVisible, noteNodes, noteNodesNext, contextMenuState,
                   contextMenuNext, notes, notesNext, dragStartRef, sharedVars,
                   gestureVars, jsQueue, db, loadResult, histVars, countVars>>

\* ---------------------------------------------------------- specifications
Touch ==
    \E n \in NoteIds :
        \/ TouchDown(n)
        \/ PanActivate(n)
        \/ \E d \in UpdateDeltas : PanUpdate(n, d)
        \/ \E d \in DragDeltas : PanEnd(n, d)
        \/ LongPressActivate(n)
        \/ TouchUp(n)

JsThread ==
    \/ handleNodeDragStartJS
    \/ handleNodeDragUpdateJS
    \/ handleNodeDragEndJS
    \/ handleNodeDragFinalizeJS
    \/ openNodeContextMenu
    \/ handleLongPressFinalize

\* the store, where a statement can be rejected
Store ==
    \/ \E ok \in BOOLEAN : DbComplete(ok)
    \/ \E order \in RowOrders : LoadDeliver(order)

\* the store: no statement is rejected
StoreOk ==
    \/ DbComplete(TRUE)
    \/ \E order \in RowOrders : LoadDeliver(order)

\* a press that is held, not dragged
LongPress ==
    \E n \in NoteIds :
        \/ TouchDown(n)
        \/ LongPressActivate(n)
        \/ TouchUp(n)

\* the callbacks of such a press
LongPressJs ==
    \/ handleNodeDragStartJS
    \/ handleNodeDragFinalizeJS
    \/ openNodeContextMenu
    \/ handleLongPressFinalize

\* the pinch that halves the scale
PinchOut ==
    \/ PinchStart
    \/ PinchUpdate(50)
    \/ PinchEnd

Menu ==
    \/ closeContextMenu
    \/ \E a \in MenuActionIds : handleCanvasMenuAction(a)

CanvasPan ==
    \/ CanvasPanStart
    \/ \E d \in PanDeltas : CanvasPanUpdate(d)
    \/ CanvasPanEnd

Pinch ==
    \/ PinchStart
    \/ \E f \in PinchFactors : PinchUpdate(f)
    \/ PinchEnd

Buttons ==
    \/ resetView
    \/ zoomToFitAll
    \/ \E n \in NoteIds : handleNodePress(n)

Picker ==
    \/ openNotePicker
    \/ closeNotePicker
    \/ \E n \in NoteIds : handleAddNoteToCanvas(n)

CreateNote == \E n \in NoteIds : createNewNote(n)

Animation == \E finish \in BOOLEAN : AnimationFrame(finish)

MenuLayout == \E size \in MenuSizes : MenuOnLayout(size)

\* Gesture arbitration: node touches, their callbacks, the context menu and
\* the canvas pan.
Next ==
    \/ Render
    \/ StoreOk
    \/ Touch
    \/ JsThread
    \/ Menu
    \/ CanvasPan

Init == InitWith(CanvasDb)

Spec == Init /\ [][Next]_vars

\* Node drags under a changing scale: the canvas pinch in place of the pan.
NextPinch ==
    \/ Render
    \/ StoreOk
    \/ Touch
    \/ JsThread
    \/ Menu
    \/ PinchOut

SpecPinch == Init /\ [][NextPinch]_vars

\* The node list: load, picker, long press and context menu.
NextOrder ==
    \/ Render
    \/ StoreOk
    \/ Picker
    \/ Menu
    \/ LongPress
    \/ LongPressJs

InitOrder == InitWith(PickerDb)

SpecOrder == InitOrder /\ [][NextOrder]_vars

\* The viewport: pinch, header buttons, node press and the animations.
NextZoom ==
    \/ Render
    \/ StoreOk
    \/ Pinch
    \/ Buttons
    \/ Animation

SpecZoom == Init /\ [][NextZoom]_vars

\* Fit to content over stores that place B next to A, far to the right of
\* it, far below it, on it, or not at all.
FitRows == {UnplacedRow, PlacedRow(500, 100), PlacedRow(3000, 100),
            PlacedRow(100, 1500), PlacedRow(100, 100)}

InitFit == \E b \in FitRows : InitWith(StoreWith(b))

SpecFit == InitFit /\ [][NextZoom]_vars

\* Placement: the picker over a viewport that is moved by the header
\* buttons and the node press.
NextPlace ==
    \/ Render
    \/ StoreOk
    \/ Picker
    \/ Buttons
    \/ Animation

SpecPlace == InitOrder /\ [][NextPlace]_vars

\* The context menu: long presses at the points of TouchPoints in the windows
\* of Windows, the menu measured after it is rendered.
NextMenu ==
    \/ Render
    \/ StoreOk
    \/ LongPress
    \/ LongPressJs
    \/ Menu
    \/ MenuLayout

InitMenu == \E p \in TouchPoints, w \in Windows : InitAt(CanvasDb, p, w)

SpecMenu == InitMenu /\ [][NextMenu]_vars

\* a touch that is dragged or lifted, never held
Drag ==
    \E n \in NoteIds :
        \/ TouchDown(n)
        \/ PanActivate(n)
        \/ \E d \in UpdateDeltas : PanUpdate(n, d)
        \/ \E d \in DragDeltas : PanEnd(n, d)
        \/ TouchUp(n)

\* the callbacks of such a touch
DragJs ==
    \/ handleNodeDragStartJS
    \/ handleNodeDragUpdateJS
    \/ handleNodeDragEndJS
    \/ handleNodeDragFinalizeJS
    \/ handleLongPressFinalize

\* Creating a note from the picker among node drags, over a store that can
\* reject a statement.
NextCreate ==
    \/ Render
    \/ Store
    \/ Drag
    \/ DragJs
    \/ openNotePicker
    \/ closeNotePicker
    \/ CreateNote

SpecCreate == Init /\ [][NextCreate]_vars

\* Creating a note from the picker among long presses and menu actions.
NextPin ==
    \/ Render
    \/ StoreOk
    \/ LongPress
    \/ LongPressJs
    \/ Menu
    \/ openNotePicker
    \/ closeNotePicker
    \/ CreateNote

SpecPin == Init /\ [][NextPin]_vars

\* Persistence: node touches, their callbacks and the context menu over a
\* store that can reject statements.
NextStore ==
    \/ Render
    \/ Store
    \/ Touch
    \/ JsThread
    \/ Menu

SpecStore == Init /\ [][NextStore]_vars

\* a touch on a node that is lifted before it moves or is held
Tap ==
    \E n \in NoteIds :
        \/ TouchDown(n)
        \/ TouchUp(n)

\* the callbacks of such a touch
TapJs ==
    \/ handleNodeDragStartJS
    \/ handleNodeDragFinalizeJS
    \/ handleLongPressFinalize

\* The canvas pan among touches on nodes, over a viewport that is moved by
\* the header buttons and the node press.
NextPan ==
    \/ Render
    \/ StoreOk
    \/ Tap
    \/ TapJs
    \/ CanvasPan
    \/ Buttons
    \/ Animation

SpecPan == Init /\ [][NextPan]_vars

\* canvas pans that bring the insertion point onto the axes of the canvas:
\* to (0, 325), (100, 0), (0, 0) and (70, 265)
OriginPanDeltas == {<<100, 0>>, <<0, 325>>, <<100, 325>>, <<30, 60>>}

CanvasPanToOrigin ==
    \/ CanvasPanStart
    \/ \E d \in OriginPanDeltas : CanvasPanUpdate(d)
    \/ CanvasPanEnd

\* The store behind the picker: notes are created and placed at insertion
\* points that have a coordinate 0.
NextRoundTrip ==
    \/ Render
    \/ StoreOk
    \/ CanvasPanToOrigin
    \/ Picker
    \/ CreateNote

SpecRoundTrip == InitOrder /\ [][NextRoundTrip]_vars

\* ------------------------------------------------------------------ claims
\* a drag session of node n: begun (handleNodeDragStartJS has run) and its
\* pan neither ended nor finalized
DragSession(n) == dragStartRef[n] # None /\ panSt[n] # "idle"
DragSessionActive == \E n \in NoteIds : DragSession(n)

\* the context menu is shown
MenuOpen == contextMenuState # None

\* the rendered node n
NodeOf(n) == noteNodes[FindIndex(noteNodes, n)]

\* C1 (pan mutual exclusion, as the specification states it): while a node
\* drag session is active or the context menu is open, a pan start / update /
\* end event of the canvas leaves translateX and translateY unchanged.
PanMutualExclusion ==
    [][(DragSessionActive \/ MenuOpen) /\ CanvasPan
            => translateX' = translateX /\ translateY' = translateY]_vars

\* C2 (pinch mutual exclusion, as the specification states it): while a node
\* drag session is active or the context menu is open, a pinch start / update /
\* end event leaves scale unchanged.
PinchMutualExclusion ==
    [][(DragSessionActive \/ MenuOpen) /\ PinchOut => scale' = scale]_vars

\* C3 (drag determinism): when the end of a drag is committed for a node whose
\* session captured the position (x0, y0) at its begin, with the scale s and
\* the screen translation (tx, ty) read at the release, the node's position
\* becomes (x0 + tx / s, y0 + ty / s), and that same position is the one sent
\* to the store.
DragDeterminism ==
    [][handleNodeDragEndJS /\ dragStartRef[Head(jsQueue).id] # None
        => LET c == Head(jsQueue)
               x == origin[c.id][1][1] + (c.tx * ScaleUnit) \div c.s
               y == origin[c.id][1][2] + (c.ty * ScaleUnit) \div c.s
           IN /\ \A i \in DOMAIN noteNodesNext' :
                    noteNodesNext'[i].id = c.id
                        => noteNodesNext'[i].x = x /\ noteNodesNext'[i].y = y
              /\ dbQueue' = Append(dbQueue,
                    [op |-> "save", id |-> c.id, x |-> x, y |-> y])]_vars

\* C3: node A, dragged by (60, -30) on the screen at scale 0.5 from (100, 100),
\* is at (220, 40) and that position is on its way to the store
DragCommittedAtHalfScale ==
    /\ \E i \in DOMAIN noteNodesNext :
            noteNodesNext[i] = [id |-> "A", x |-> 220, y |-> 40, isPinned |-> FALSE]
    /\ \E i \in DOMAIN dbQueue :
            dbQueue[i] = [op |-> "save", id |-> "A", x |-> 220, y |-> 40]

\* C4 (removal safety): remove, applied to the node of the open context menu
\* (with or without a live drag session), takes the node out of the node
\* order, deletes its drag session and clears the menu; and the end callback
\* of a drag that the removal cut short changes no position and issues no save.
RemovalSafety ==
    [][/\ handleCanvasMenuAction("remove")
            => LET id == contextMenuState[1].id IN
               /\ id \notin Ids(noteNodesNext')
               /\ dragStartRef'[id] = None
               /\ contextMenuNext' = None
       /\ handleNodeDragEndJS /\ aborted[Head(jsQueue).id]
            => /\ dbQueue' = dbQueue
               /\ noteNodesNext' = noteNodesNext
               /\ dragStartRef' = dragStartRef]_vars

\* C4: a node was removed while its drag session was live, and the end
\* callback of that drag is the next call the JS thread runs
DragEndAfterRemoval ==
    /\ NextCall("dragEnd")
    /\ aborted[Head(jsQueue).id]
    /\ Head(jsQueue).id \notin Ids(noteNodesNext)

\* C5 (pinned nodes cannot be dragged): a touch that goes down on a node
\* rendered as pinned begins no pan: no drag callback is queued, no drag
\* session is created, canvas panning keeps its arming, and neither the node
\* list nor the store queue changes.
PinnedCannotBeDragged ==
    [][\A n \in NoteIds :
        (/\ n \in Ids(noteNodes) /\ NodeOf(n).isPinned
         /\ lpSt[n] = "idle" /\ lpSt'[n] = "began")
            => /\ panSt'[n] = "idle"
               /\ jsQueue' = jsQueue
               /\ dragStartRef' = dragStartRef
               /\ canvasPanEnabled' = canvasPanEnabled
               /\ noteNodesNext' = noteNodesNext
               /\ dbQueue' = dbQueue]_vars

\* C5: a finger is down on a pinned node, no pan began for it, and the canvas
\* pan, still armed, has moved the canvas
PinnedTouchPansCanvas ==
    \E n \in NoteIds :
        /\ n \in Ids(noteNodes) /\ NodeOf(n).isPinned
        /\ lpSt[n] = "began" /\ panSt[n] = "idle"
        /\ canvasPanEnabled /\ canvasPanSt = "active"
        /\ translateX # lastTranslateX

\* C6 (node order uniqueness, as the specification states it): the node
\* order holds each node id at most once.
NodeOrderUnique ==
    \A i, j \in DOMAIN noteNodesNext :
        noteNodesNext[i].id = noteNodesNext[j].id => i = j

\* C7 (scale bounds at rest, as the specification states it): with no pinch
\* in progress and no animation running, 0.1 <= scale <= 5.
ScaleBoundsAtRest ==
    (pinchSt = "idle" /\ scale = scaleAnim) => (MIN_SCALE <= scale /\ scale <= MAX_SCALE)

\* C8 (zoom clamp during gesture): after every pinch update, whatever the
\* scale the pinch started from and whatever the factor, 0.1 <= scale <= 5.
ZoomClampDuringGesture ==
    [][(\E f \in PinchFactors : PinchUpdate(f))
            => (10 <= scale' /\ scale' <= 500)]_vars

\* C8: a pinch started below 0.1 (after a fit to far apart nodes) and its
\* update, with a factor that keeps the product below 0.1, set the scale to 0.1
PinchClampedFromBelow ==
    pinchSt = "active" /\ lastScale < 10 /\ scale = 10

\* C9 (zoom snap on gesture end, as the specification states it): when a
\* pinch ends the scale target is 0.5 if scale < 0.5, 3 if scale > 3, and the
\* scale itself otherwise.
ZoomSnapToScale ==
    [][PinchEnd => scaleAnim' =
            IF scale < 50 THEN 50 ELSE IF scale > 300 THEN 300 ELSE scale]_vars

\* C9 (amended): when a pinch ends the scale target is 0.5 if scale < 0.5,
\* 3 if scale > 3, and otherwise what it was (the scale itself when no
\* animation is running, else the target of the running animation); the scale
\* is not written.  Hence a pinch that ends with no animation running
\* settles in [0.5, 3].
ZoomSnapOnGestureEnd ==
    [][PinchEnd =>
        /\ scale' = scale
        /\ scaleAnim' =
            IF scale < 50 THEN 50 ELSE IF scale > 300 THEN 300 ELSE scaleAnim
        /\ (scale = scaleAnim => (50 <= scaleAnim' /\ scaleAnim' <= 300))]_vars

\* C9: a pinch from 1.0 took the scale to 0.1 and ended, and the snap to 0.5
\* has settled
PinchSnappedToHalf ==
    pinchSt = "idle" /\ nCanvas = 1 /\ lastScale = 100 /\ scale = 50 /\ scaleAnim = 50

\* C10 (z-order idempotence at the boundaries, as the specification states
\* it): layer-up on the id that is last in the node order, and layer-down on
\* the id that is first, leave the node order unchanged.
ZOrderIdempotentAtBoundaries ==
    [][/\ (handleCanvasMenuAction("layer-up")
            /\ noteNodesNext # <<>>
            /\ noteNodesNext[Len(noteNodesNext)].id = contextMenuState[1].id)
                => noteNodesNext' = noteNodesNext
       /\ (handleCanvasMenuAction("layer-down")
            /\ noteNodesNext # <<>>
            /\ noteNodesNext[1].id = contextMenuState[1].id)
                => noteNodesNext' = noteNodesNext]_vars

\* the node ids that have a captured origin entry in dragStartRef
LiveSessions == {n \in NoteIds : dragStartRef[n] # None}

\* C11 (single drag session, as the specification states it): at every
\* instant at most one node id has a captured origin entry.
SingleDragSession == Cardinality(LiveSessions) <= 1

\* C12 (persistence is fire-and-forget): when an updateNotePosition (a save
\* or a clear) settles, resolved or rejected, the node list (positions,
\* order, pinned flags), the viewport transform and the drag sessions are
\* unchanged, and nothing is issued in its place: the statement just leaves
\* the statements in flight.
FireAndForget ==
    [][\A ok \in BOOLEAN :
        (DbComplete(ok) /\ Head(dbQueue).op \in {"save", "clear"})
            => /\ noteNodes' = noteNodes
               /\ noteNodesNext' = noteNodesNext
               /\ <<translateX, translateY, scale>>' = <<translateX, translateY, scale>>
               /\ <<txAnim, tyAnim, scaleAnim>>' = <<txAnim, tyAnim, scaleAnim>>
               /\ dragStartRef' = dragStartRef
               /\ jsQueue' = jsQueue
               /\ dbQueue' = SubSeq(dbQueue, 2, Len(dbQueue))]_vars

\* C12: the drag of A to (160, 70) is over and its save was rejected: the
\* store still holds (100, 100), the node stays at (160, 70) and no statement
\* is in flight
SaveRejectedAndForgotten ==
    /\ panSt["A"] = "idle" /\ dragStartRef["A"] = None
    /\ \E i \in DOMAIN noteNodesNext :
            noteNodesNext[i].id = "A" /\ noteNodesNext[i].x = 160 /\ noteNodesNext[i].y = 70
    /\ db["A"] = <<[px |-> <<100>>, py |-> <<100>>]>>
    /\ dbQueue = <<>> /\ jsQueue = <<>>

\* the bounding box of the rendered nodes, with their sizes
BoxLeft == CHOOSE v \in {noteNodes[i].x : i \in DOMAIN noteNodes} :
                \A i \in DOMAIN noteNodes : v <= noteNodes[i].x
BoxRight == CHOOSE v \in {noteNodes[i].x + 200 : i \in DOMAIN noteNodes} :
                \A i \in DOMAIN noteNodes : v >= noteNodes[i].x + 200
BoxTop == CHOOSE v \in {noteNodes[i].y : i \in DOMAIN noteNodes} :
                \A i \in DOMAIN noteNodes : v <= noteNodes[i].y
BoxBottom == CHOOSE v \in {noteNodes[i].y + 150 : i \in DOMAIN noteNodes} :
                \A i \in DOMAIN noteNodes : v >= noteNodes[i].y + 150

\* C13 (fit-to-content scale): with no nodes fit-to-content leaves the
\* viewport transform and its targets unchanged; otherwise the scale target
\* is min((viewportWidth - 2*padding) / boxWidth,
\*        (viewportHeight - 2*padding) / boxHeight, 1), so it never exceeds 1.
FitToContentScale ==
    [][zoomToFitAll =>
        IF noteNodes = <<>>
        THEN /\ <<translateX, translateY, scale>>' = <<translateX, translateY, scale>>
             /\ <<txAnim, tyAnim, scaleAnim>>' = <<txAnim, tyAnim, scaleAnim>>
        ELSE LET sx == ((screenWidth - 2 * 100) * ScaleUnit) \div (BoxRight - BoxLeft)
                 sy == ((screenHeight - 2 * 100) * ScaleUnit) \div (BoxBottom - BoxTop)
                 fit == IF sx <= sy /\ sx <= ScaleUnit THEN sx
                        ELSE IF sy <= ScaleUnit THEN sy ELSE ScaleUnit
             IN scaleAnim' = fit /\ scaleAnim' <= ScaleUnit]_vars

\* C13: A at (100, 100) and B at (100, 1500): the fit is decided by the
\* height of the box, 600 / 1550 = 0.38, and has settled
FitDecidedByHeight ==
    Len(noteNodes) = 2 /\ scaleAnim = 38 /\ scale = 38 /\ pinchSt = "idle"

\* C14 (fit-to-content centering): for a non-empty node list the targets of
\* fit-to-content map the centre of the bounding box to the centre of the
\* viewport under canvasToScreen(p) = p * scale + translate.
FitToContentCentering ==
    [][zoomToFitAll /\ noteNodes # <<>> =>
        /\ (((BoxLeft + BoxRight) \div 2) * scaleAnim') \div ScaleUnit + txAnim'
                = screenWidth \div 2
        /\ (((BoxTop + BoxBottom) \div 2) * scaleAnim') \div ScaleUnit + tyAnim'
                = screenHeight \div 2]_vars

\* C14: A at (100, 100) and B at (3000, 100): box centre x = 1650, scale
\* target 0.06, translateX target 200 - 99 = 101, and the animation has settled
FitCentredFarApart ==
    /\ Len(noteNodes) = 2 /\ scaleAnim = 6 /\ txAnim = 101
    /\ scale = 6 /\ translateX = 101

\* C15 (insertion point): the point computeInsertionPoint returns is the
\* inverse transform (screenCenter - translate) / scale of the viewport
\* centre: a node placed there has its centre mapped to the viewport centre
\* by canvasToScreen(p) = p * scale + translate (within 5 px of rounding).
InsertionPointAtViewportCentre ==
    [][\A n \in NoteIds :
        handleAddNoteToCanvas(n) =>
            LET node == noteNodesNext'[Len(noteNodesNext')]
                sx == ((node.x + 100) * scale) \div ScaleUnit + translateX
                sy == ((node.y + 75) * scale) \div ScaleUnit + translateY
            IN /\ sx - 200 <= 5 /\ 200 - sx <= 5
               /\ sy - 400 <= 5 /\ 400 - sy <= 5]_vars

\* the anchor, the estimated size of the menu and the window, as rendered
AnchorX == contextMenuState[1].position[1]
AnchorY == contextMenuState[1].position[2]
MenuWidth == IF menuLayout[1] = 0 THEN 220 ELSE menuLayout[1]
MenuHeight == IF menuLayout[2] = 0 THEN 200 ELSE menuLayout[2]

\* C16 (context menu vertical placement): the menu top is anchor.y + 12 when
\* the menu then ends above viewportHeight - margin; otherwise the menu is
\* flipped above the anchor (it ends at or above the anchor) when it fits
\* there; otherwise the top is clamped into
\* [margin, viewportHeight - margin - menuHeight].
MenuVerticalPlacement ==
    MenuOpen =>
        LET top == menuPosition.top
            H == windowDimensions[2]
        IN IF AnchorY + 12 + MenuHeight <= H - 16
           THEN top = AnchorY + 12
           ELSE IF AnchorY - MenuHeight - 12 >= 16
                THEN top + MenuHeight <= AnchorY
                ELSE 16 <= top /\ top <= H - 16 - MenuHeight

\* C17 (context menu horizontal placement): the menu left edge is
\* anchor.x - menuWidth / 2 clamped into
\* [margin, viewportWidth - margin - menuWidth], on the canvas and, for the
\* same anchor and window, in the notes list.
MenuHorizontalPlacement ==
    MenuOpen =>
        LET W == windowDimensions[1]
            listWidth == IF menuLayout[1] = 0 THEN 260 ELSE menuLayout[1]
            Clamped(w) == IF AnchorX - w \div 2 < 16 THEN 16
                          ELSE IF AnchorX - w \div 2 > W - 16 - w THEN W - 16 - w
                          ELSE AnchorX - w \div 2
        IN /\ menuPosition.left = Clamped(MenuWidth)
           /\ ListMenuLeft(AnchorX, OrDefault(menuLayout[1], LIST_DEFAULT_MENU_WIDTH), W)
                = Clamped(listWidth)

\* C17: a menu measured 250 wide, anchored at x = 290 in a window 400 wide:
\* 290 - 125 = 165 is clamped to 400 - 16 - 250 = 134
MenuClampedAtRightEdge ==
    /\ MenuOpen /\ AnchorX = 290 /\ windowDimensions[1] = 400
    /\ menuLayout = <<250, 260>> /\ menuPosition.left = 134

\* C18 (pinch anchor stability): for every pinch update and every anchor
\* screen point a, the canvas point (a - translate) / scale that was under a
\* before the update is mapped to a again by the transform after the update
\* (within 6 px of rounding).
PinchAnchorStability ==
    [][\A f \in PinchFactors :
        PinchUpdate(f) =>
            \A a \in {<<200, 400>>, <<100, 200>>} :
                LET cx == ((a[1] - translateX) * ScaleUnit) \div scale
                    cy == ((a[2] - translateY) * ScaleUnit) \div scale
                    ax == (cx * scale') \div ScaleUnit + translateX'
                    ay == (cy * scale') \div ScaleUnit + translateY'
                IN /\ ax - a[1] <= 6 /\ a[1] - ax <= 6
                   /\ ay - a[2] <= 6 /\ a[2] - ay <= 6]_vars

\* the pinned flag and the position of node n in the node list
PinnedIn(nodes, n) == nodes[FindIndex(nodes, n)].isPinned
PositionIn(nodes, n) == <<nodes[FindIndex(nodes, n)].x, nodes[FindIndex(nodes, n)].y>>

\* C19 (pinned frame condition): the pinned flag of a node that exists before
\* and after a step changes only in the step of the pin/unpin menu action on
\* that node; every other operation leaves it unchanged.
PinnedFrameCondition ==
    [][\A n \in NoteIds :
        (/\ n \in Ids(noteNodesNext) /\ n \in Ids(noteNodesNext')
         /\ PinnedIn(noteNodesNext', n) # PinnedIn(noteNodesNext, n))
            => /\ handleCanvasMenuAction("pin")
               /\ contextMenuState[1].id = n]_vars

\* C20 (no read-back after the initial load): a step that delivers rows read
\* from the store leaves the position of every node that is in memory
\* unchanged (before the initial load no node is in memory).
NoReadBack ==
    [][\A order \in RowOrders :
        LoadDeliver(order) =>
            \A n \in NoteIds :
                n \in Ids(noteNodesNext) /\ n \in Ids(noteNodesNext')
                    => PositionIn(noteNodesNext', n) = PositionIn(noteNodesNext, n)]_vars

\* the runOnJS calls of handler op for node n that wait in the queue
CallsOf(q, op, n) == Cardinality({i \in DOMAIN q : q[i].op = op /\ q[i].id = n})

Idle ==
    /\ \A n \in NoteIds : panSt[n] = "idle" /\ lpSt[n] = "idle"
    /\ jsQueue = <<>>
    /\ contextMenuState = None /\ contextMenuNext = None

\* C22 (re-arming on return to Idle): whenever all node gestures have
\* finalized and the context menu is closed, canvas panning is armed
\* (canvasPanEnabled is true), after any sequence of drags, failed long
\* presses, menu opens and menu closes.
RearmedWhenIdle == Idle => canvasPanEnabled

\* C22: back in Idle after a long press on A opened the menu and the menu was
\* closed again
IdleAfterMenuClosed ==
    Idle /\ winner["A"] = "longPress" /\ canvasPanEnabled

\* C23 (layer move semantics): layer-up on an id of the node order that is
\* not last moves it to the end, layer-down on an id that is not first moves
\* it to index 0; the other nodes keep their relative order, the ids are the
\* same, and no node's position or pinned flag changes.
LayerMoveSemantics ==
    [][LET id == contextMenuState[1].id
           prev == noteNodesNext
           next == noteNodesNext'
       IN /\ (/\ handleCanvasMenuAction("layer-up")
              /\ id \in Ids(prev) /\ prev[Len(prev)].id # id)
                => /\ Len(next) = Len(prev)
                   /\ next[Len(next)] = prev[FindIndex(prev, id)]
                   /\ FilterOut(next, id) = FilterOut(prev, id)
          /\ (/\ handleCanvasMenuAction("layer-down")
              /\ id \in Ids(prev) /\ prev[1].id # id)
                => /\ Len(next) = Len(prev)
                   /\ next[1] = prev[FindIndex(prev, id)]
                   /\ FilterOut(next, id) = FilterOut(prev, id)]_vars

\* C23: the menu of A, rendered when A was first of three nodes, has just
\* moved A to the end by layer-up
LayerUpOverTwoNodes ==
    /\ MenuOpen /\ contextMenuState[1].id = "A" /\ contextMenuNext = None
    /\ Len(noteNodes) = 3 /\ noteNodes[1].id = "A"
    /\ Len(noteNodesNext) = 3 /\ noteNodesNext[3].id = "A"
    /\ noteNodesNext[1] = noteNodes[2] /\ noteNodesNext[2] = noteNodes[3]

\* C24 (invalid input is a silent no-op): a drag update or a drag end for a
\* node id that has no drag session, and a layer-up or layer-down for an id
\* that is not in the node order, leave node positions, node order and the
\* sessions unchanged and issue no persistence call.
InvalidInputNoOp ==
    [][/\ ((handleNodeDragUpdateJS \/ handleNodeDragEndJS)
            /\ dragStartRef[Head(jsQueue).id] = None)
                => /\ noteNodesNext' = noteNodesNext
                   /\ dragStartRef' = dragStartRef
                   /\ <<db, dbQueue>>' = <<db, dbQueue>>
       /\ ((handleCanvasMenuAction("layer-up") \/ handleCanvasMenuAction("layer-down"))
            /\ contextMenuState[1].id \notin Ids(noteNodesNext))
                => /\ noteNodesNext' = noteNodesNext
                   /\ dragStartRef' = dragStartRef
                   /\ <<db, dbQueue>>' = <<db, dbQueue>>]_vars

\* C24: the menu of a node is still rendered after its remove action took the
\* node out of the node order, and a drag end for that node, whose session is
\* gone, waits in the queue
StaleMenuAndStaleDragEnd ==
    /\ MenuOpen /\ contextMenuNext = None
    /\ contextMenuState[1].id \notin Ids(noteNodesNext)
    /\ \E i \in DOMAIN jsQueue :
            /\ jsQueue[i].op = "dragEnd" /\ jsQueue[i].id = contextMenuState[1].id
    /\ dragStartRef[contextMenuState[1].id] = None

\* C25 (remove reverts the item to unplaced): the remove action closes the
\* menu, takes the node out of the node order leaving the others as they
\* were, and issues exactly one clearPosition call for its id; the note stays
\* among the notes, so the picker offers it again once the node is no longer
\* rendered; adding a note appends it to the node order (frontmost) with
\* pinned = false.
RemoveRevertsToUnplaced ==
    [][/\ handleCanvasMenuAction("remove")
            => LET id == contextMenuState[1].id IN
               /\ contextMenuNext' = None
               /\ id \notin Ids(noteNodesNext')
               /\ \A i \in DOMAIN noteNodesNext :
                    noteNodesNext[i].id # id
                        => \E j \in DOMAIN noteNodesNext' : noteNodesNext'[j] = noteNodesNext[i]
               /\ Len(noteNodesNext') =
                    Cardinality({i \in DOMAIN noteNodesNext : noteNodesNext[i].id # id})
               /\ dbQueue' = Append(dbQueue, [op |-> "clear", id |-> id, x |-> 0, y |-> 0])
               /\ notesNext' = notesNext /\ id \in notesNext
       /\ \A n \in NoteIds :
            (n \in notes' /\ n \notin Ids(noteNodes')) => n \in availableNotes'
       /\ \A n \in NoteIds :
            handleAddNoteToCanvas(n)
                => /\ Len(noteNodesNext') = Len(noteNodesNext) + 1
                   /\ SubSeq(noteNodesNext', 1, Len(noteNodesNext)) = noteNodesNext
                   /\ noteNodesNext'[Len(noteNodesNext')].id = n
                   /\ ~noteNodesNext'[Len(noteNodesNext')].isPinned]_vars

\* C25: B was removed from the canvas and added again while its clearPosition
\* is still in flight: B is last in the node order, unpinned
RemovedNoteAddedAgain ==
    /\ Len(dbQueue) = 2
    /\ dbQueue[1] = [op |-> "clear", id |-> "B", x |-> 0, y |-> 0]
    /\ dbQueue[2].op = "save" /\ dbQueue[2].id = "B"
    /\ noteNodesNext # <<>>
    /\ noteNodesNext[Len(noteNodesNext)].id = "B"
    /\ ~noteNodesNext[Len(noteNodesNext)].isPinned

\* C26 (degenerate geometry): for every non-empty rendered node list,
\* a single node included, the width and the height of the bounding box that
\* fit-to-content divides by are at least 1, and the scale it computes is a
\* positive number.
FitDivisorsPositive ==
    [][(zoomToFitAll /\ noteNodes # <<>>)
        => /\ Bounds(noteNodes).maxX - Bounds(noteNodes).minX >= 1
           /\ Bounds(noteNodes).maxY - Bounds(noteNodes).minY >= 1
           /\ scaleAnim' > 0]_vars

\* C26: fit-to-content on the single node A at (100, 100): scale 1, the
\* centre (200, 175) of the node at the centre of the window
FitOfSingleNode ==
    /\ Len(noteNodes) = 1 /\ noteNodes = noteNodesNext /\ loadSt = "idle"
    /\ scaleAnim = ScaleUnit /\ txAnim = 0 /\ tyAnim = 225

\* the position the store holds for note n, as getAllNotes maps it
StoredPosition(n) == IF db[n] = None THEN None ELSE MapRowPosition(db[n][1])

\* the positions of the nodes of note n on the canvas, as column values
CanvasPositions(nodes, n) ==
    {Some([x |-> Some(nodes[i].x), y |-> Some(nodes[i].y)]) :
        i \in {k \in DOMAIN nodes : nodes[k].id = n}}

\* every statement that was issued has completed, every queued callback has
\* run, no touch is on a node and the component has rendered its state
Settled ==
    /\ dbQueue = <<>> /\ loadSt = "idle"
    /\ jsQueue = <<>>
    /\ \A n \in NoteIds : panSt[n] = "idle" /\ lpSt[n] = "idle"
    /\ noteNodes = noteNodesNext

\* C27 (store reconciliation): once every updateNotePosition that was issued
\* has completed successfully, the stored position of each note is its canvas
\* state: the position of its node if it is placed, none if it is not.
StoreReconciled ==
    Settled =>
        \A n \in NoteIds :
            IF n \in Ids(noteNodesNext)
            THEN CanvasPositions(noteNodesNext, n) = {StoredPosition(n)}
            ELSE StoredPosition(n) = None

\* C28 (pan continuity): a canvas pan update that changes the viewport sets
\* translate to the translate of the start of the same pan gesture plus the
\* translation of the gesture, also when the gesture started while panning
\* was suppressed and panning was re-armed before it ended.
PanContinuity ==
    [][\A d \in PanDeltas :
        (CanvasPanUpdate(d) /\ <<translateX', translateY'>> # <<translateX, translateY>>)
            => /\ translateX' = panOrigin[1][1] + d[1]
               /\ translateY' = panOrigin[1][2] + d[2]]_vars

\* derivedContextMenuActions: the label of the pin action of the menu shown
PinActionLabel == IF contextMenuState[1].isPinned THEN "Unpin" ELSE "Pin"

\* the menu shown for a node that is rendered pinned labels its pin action
\* Unpin
UnpinLabelShown ==
    \A n \in NoteIds :
        (/\ contextMenuState # None /\ contextMenuState[1].id = n
         /\ n \in Ids(noteNodes) /\ NodeOf(n).isPinned)
            => PinActionLabel = "Unpin"

\* C29 (pinned nodes stay reachable): a press held on a pinned node can
\* activate its long press, and the call it makes opens the menu of the node;
\* a menu shown for a node that is rendered pinned labels its pin action
\* Unpin, and selecting that action leaves the node unpinned; a touch on a
\* node that is rendered unpinned begins its pan.
PinnedStaysReachable ==
    [][/\ UnpinLabelShown'
       /\ \A n \in NoteIds :
            /\ (/\ n \in Ids(noteNodes) /\ NodeOf(n).isPinned
                /\ lpSt[n] = "began" /\ Len(jsQueue) + 2 <= MaxQueue)
                    => ENABLED LongPressActivate(n)
            /\ (/\ openNodeContextMenu /\ Head(jsQueue).id = n
                /\ n \in Ids(noteNodes) /\ NodeOf(n).isPinned)
                    => /\ contextMenuNext' # None
                       /\ contextMenuNext'[1].id = n
            /\ (/\ handleCanvasMenuAction("pin") /\ contextMenuState[1].id = n
                /\ n \in Ids(noteNodes) /\ NodeOf(n).isPinned
                /\ PinActionLabel = "Unpin" /\ n \in Ids(noteNodesNext'))
                    => ~PinnedIn(noteNodesNext', n)
            /\ (/\ n \in Ids(noteNodes) /\ ~NodeOf(n).isPinned
                /\ lpSt[n] = "idle" /\ lpSt'[n] = "began")
                    => panSt'[n] = "began"]_vars

\* C30 (stored position round trip): when createNote or updateNotePosition
\* of a note completes, getAllNotes reads the note back with exactly the
\* position that was written, a coordinate 0 included, and with no position
\* after updateNotePosition(id, null).
PositionRoundTrip ==
    [][(/\ DbComplete(TRUE) /\ Head(dbQueue).op # "read"
        /\ db'[Head(dbQueue).id] # None)
        => LET o == Head(dbQueue)
               read == GetAllNotes(db')[o.id][1]
           IN /\ o.op \in {"insert", "save"}
                    => read = Some([x |-> Some(o.x), y |-> Some(o.y)])
              /\ o.op = "clear" => read = None]_vars

====
